---- MODULE Spec2Model ----
(***************************************************************************)
(* Expense approval backend (src/expense_approval_backend.py).             *)
(*                                                                         *)
(* The state is the content of the database tables (Company, User,         *)
(* Expense, ApprovalRequest, ApprovalRule) and the reply of the last       *)
(* handler that ran.  Row ids are the positions in the sequences: sqlite   *)
(* numbers the rows of a table 1, 2, 3, ... and no handler deletes a row.  *)
(* Every handler runs as one action (one request, served to its end);      *)
(* inflight holds the calls that have started and not yet replied, for     *)
(* the specification that serves requests concurrently.                    *)
(* Authentication is abstracted: any stored user can obtain a token        *)
(* (signup and login hand one out), so current_user ranges over the        *)
(* stored users.  Columns no handler reads back (email, password, amount,  *)
(* currency, category, description, date, company name) are left out.      *)
(***************************************************************************)
EXTENDS Integers, Sequences, FiniteSets, TLC

VARIABLES companies, users, expenses, approvals, rules, response, inflight

vars == <<companies, users, expenses, approvals, rules, response, inflight>>

(***************************************************************************)
(* Bounds of the model.                                                    *)
(***************************************************************************)
MaxUsers == 2
MaxExpenses == 1

\* Optional[int] columns: the value of a column left at its default None.
None == -1

\* UserRole
ADMIN == "admin"
MANAGER == "manager"
EMPLOYEE == "employee"

\* Python truthiness of an Optional[int]: None and 0 are false.
Truthy(x) == x # None /\ x # 0

\* A row of the ApprovalRule table.
ApprovalRule(c, s, a, p, h) ==
    [company_id |-> c, step |-> s, approver_id |-> a,
     percentage_required |-> p, hybrid |-> h]

\* A row of the ApprovalRequest table; status defaults to "pending".
ApprovalRequest(s, e, a) ==
    [status |-> "pending", step |-> s, expense_id |-> e, approver_id |-> a]

\* A row of the User table.
User(r, c, m) == [role |-> r, company_id |-> c, manager_id |-> m]

\* A row of the Expense table.
Expense(u) == [user_id |-> u]

(***************************************************************************)
(* The rule tables the model starts from.  No handler writes the           *)
(* ApprovalRule table, so its content is whatever the database holds.      *)
(***************************************************************************)
RuleConfigs ==
    { <<>>,
      \* one fixed approver
      << ApprovalRule(1, 1, 1, None, FALSE) >>,
      \* two sequential steps
      << ApprovalRule(1, 1, 1, None, FALSE), ApprovalRule(1, 2, 2, None, FALSE) >>,
      \* rules of another company only
      << ApprovalRule(2, 1, 1, None, FALSE) >>,
      \* a percentage rule without a fixed approver
      << ApprovalRule(1, 1, None, 60, FALSE) >>,
      \* two rules sharing a step and an approver
      << ApprovalRule(1, 1, 2, None, FALSE), ApprovalRule(1, 1, 2, None, FALSE) >> }

\* The replies of the handlers: the HTTP status code and the fields of the
\* body the model keeps (the id and the status the handler returns), with
\* the caller of a request that succeeded; an HTTPException carries its
\* status code only.
Reply(op, u, code, id, status) ==
    [op |-> op, user |-> u, code |-> code, id |-> id, status |-> status]

\* get_current_user: the users a valid token can resolve to.
CurrentUsers == 1 .. Len(users)

Init ==
    /\ companies = 0
    /\ users = <<>>
    /\ expenses = <<>>
    /\ approvals = <<>>
    /\ rules \in RuleConfigs
    /\ response = Reply("startup", 0, 200, 0, "")
    /\ inflight = {}

\* POST /signup
signup ==
    /\ companies' = companies + 1
    /\ users' = Append(users, User(ADMIN, companies + 1, None))
    /\ response' = Reply("signup", 0, 200, Len(users) + 1, "")
    /\ UNCHANGED <<expenses, approvals, rules, inflight>>

\* POST /users
create_user(cu, role, manager_id) ==
    /\ cu \in CurrentUsers
    /\ IF users[cu].role # ADMIN
       THEN /\ response' = Reply("create_user", 0, 403, 0, "")
            /\ UNCHANGED users
       ELSE /\ users' = Append(users, User(role, users[cu].company_id, manager_id))
            /\ response' = Reply("create_user", cu, 200, Len(users) + 1, "")
    /\ UNCHANGED <<companies, expenses, approvals, rules, inflight>>

\* select(ApprovalRule).where(ApprovalRule.company_id == company_id)
RulesOf(company_id) == SelectSeq(rules, LAMBDA r : r.company_id = company_id)

\* The requests the loop over the rules adds, in the order of the rules.
RECURSIVE RequestsFor(_, _)
RequestsFor(rs, eid) ==
    IF rs = <<>> THEN <<>>
    ELSE LET rule == Head(rs)
         IN  (IF Truthy(rule.approver_id)
              THEN << ApprovalRequest(rule.step, eid, rule.approver_id) >>
              ELSE <<>>) \o RequestsFor(Tail(rs), eid)

\* submit_expense with the manager fallback naming the submitter as approver.
submit_expense_SelfApprover(cu) ==
    /\ cu \in CurrentUsers
    /\ LET eid == Len(expenses) + 1
           rs == RulesOf(users[cu].company_id)
       IN  /\ expenses' = Append(expenses, Expense(cu))
           /\ IF rs = <<>> /\ Truthy(users[cu].manager_id)
              THEN approvals' = Append(approvals, ApprovalRequest(1, eid, cu))
              ELSE approvals' = approvals \o RequestsFor(rs, eid)
           /\ response' = Reply("submit_expense", cu, 200, eid, "submitted")
    /\ UNCHANGED <<companies, users, rules, inflight>>

\* POST /expenses
submit_expense(cu) ==
    /\ cu \in CurrentUsers
    /\ LET eid == Len(expenses) + 1
           rs == RulesOf(users[cu].company_id)
       IN  /\ expenses' = Append(expenses, Expense(cu))
           /\ IF rs = <<>> /\ Truthy(users[cu].manager_id)
              THEN approvals' = Append(approvals,
                                       ApprovalRequest(1, eid, users[cu].manager_id))
              ELSE approvals' = approvals \o RequestsFor(rs, eid)
           /\ response' = Reply("submit_expense", cu, 200, eid, "submitted")
    /\ UNCHANGED <<companies, users, rules, inflight>>

\* act_on_approval without the comparison of approver_id with the caller.
act_on_approval_AnyUser(cu, approval_id, action) ==
    /\ cu \in CurrentUsers
    /\ IF approval_id \notin DOMAIN approvals
       THEN /\ response' = Reply("act_on_approval", 0, 404, 0, "")
            /\ UNCHANGED approvals
       ELSE IF action \notin {"approved", "rejected"}
       THEN /\ response' = Reply("act_on_approval", 0, 400, 0, "")
            /\ UNCHANGED approvals
       ELSE /\ approvals' = [approvals EXCEPT ![approval_id].status = action]
            /\ response' = Reply("act_on_approval", cu, 200, approval_id, action)
    /\ UNCHANGED <<companies, users, expenses, rules, inflight>>

\* act_on_approval storing "approved" whatever the action.
act_on_approval_AlwaysApproves(cu, approval_id, action) ==
    /\ cu \in CurrentUsers
    /\ IF approval_id \notin DOMAIN approvals
          \/ approvals[approval_id].approver_id # cu
       THEN /\ response' = Reply("act_on_approval", 0, 404, 0, "")
            /\ UNCHANGED approvals
       ELSE IF action \notin {"approved", "rejected"}
       THEN /\ response' = Reply("act_on_approval", 0, 400, 0, "")
            /\ UNCHANGED approvals
       ELSE /\ approvals' = [approvals EXCEPT ![approval_id].status = "approved"]
            /\ response' = Reply("act_on_approval", cu, 200, approval_id, action)
    /\ UNCHANGED <<companies, users, expenses, rules, inflight>>

\* act_on_approval validating the action before it looks the request up.
act_on_approval_ActionFirst(cu, approval_id, action) ==
    /\ cu \in CurrentUsers
    /\ IF action \notin {"approved", "rejected"}
       THEN /\ response' = Reply("act_on_approval", 0, 400, 0, "")
            /\ UNCHANGED approvals
       ELSE IF approval_id \notin DOMAIN approvals
               \/ approvals[approval_id].approver_id # cu
       THEN /\ response' = Reply("act_on_approval", 0, 404, 0, "")
            /\ UNCHANGED approvals
       ELSE /\ approvals' = [approvals EXCEPT ![approval_id].status = action]
            /\ response' = Reply("act_on_approval", cu, 200, approval_id, action)
    /\ UNCHANGED <<companies, users, expenses, rules, inflight>>

\* act_on_approval that on a rejection also rejects the other pending
\* requests of the expense.
act_on_approval_CancelsSiblings(cu, approval_id, action) ==
    /\ cu \in CurrentUsers
    /\ IF approval_id \notin DOMAIN approvals
          \/ approvals[approval_id].approver_id # cu
       THEN /\ response' = Reply("act_on_approval", 0, 404, 0, "")
            /\ UNCHANGED approvals
       ELSE IF action \notin {"approved", "rejected"}
       THEN /\ response' = Reply("act_on_approval", 0, 400, 0, "")
            /\ UNCHANGED approvals
       ELSE /\ approvals' =
                 [i \in DOMAIN approvals |->
                     IF i = approval_id
                        \/ (/\ action = "rejected"
                            /\ approvals[i].expense_id = approvals[approval_id].expense_id
                            /\ approvals[i].status = "pending")
                     THEN [approvals[i] EXCEPT !.status = action]
                     ELSE approvals[i]]
            /\ response' = Reply("act_on_approval", cu, 200, approval_id, action)
    /\ UNCHANGED <<companies, users, expenses, rules, inflight>>

\* act_on_approval without the validation of the action.
act_on_approval_NoActionCheck(cu, approval_id, action) ==
    /\ cu \in CurrentUsers
    /\ IF approval_id \notin DOMAIN approvals
          \/ approvals[approval_id].approver_id # cu
       THEN /\ response' = Reply("act_on_approval", 0, 404, 0, "")
            /\ UNCHANGED approvals
       ELSE /\ approvals' = [approvals EXCEPT ![approval_id].status = action]
            /\ response' = Reply("act_on_approval", cu, 200, approval_id, action)
    /\ UNCHANGED <<companies, users, expenses, rules, inflight>>

\* POST /approvals/{approval_id}
act_on_approval(cu, approval_id, action) ==
    /\ cu \in CurrentUsers
    /\ IF approval_id \notin DOMAIN approvals
          \/ approvals[approval_id].approver_id # cu
       THEN /\ response' = Reply("act_on_approval", 0, 404, 0, "")
            /\ UNCHANGED approvals
       ELSE IF action \notin {"approved", "rejected"}
       THEN /\ response' = Reply("act_on_approval", 0, 400, 0, "")
            /\ UNCHANGED approvals
       ELSE /\ approvals' = [approvals EXCEPT ![approval_id].status = action]
            /\ response' = Reply("act_on_approval", cu, 200, approval_id, action)
    /\ UNCHANGED <<companies, users, expenses, rules, inflight>>

\* get_approvals returning the requests of every approver.
get_approvals_Unfiltered(cu) ==
    /\ cu \in CurrentUsers
    /\ response' = [op |-> "get_approvals", user |-> cu, code |-> 200, id |-> 0,
                    status |-> "", approvals |-> DOMAIN approvals]
    /\ UNCHANGED <<companies, users, expenses, approvals, rules, inflight>>

\* GET /approvals: the reply lists the rows selected, named by their ids.
get_approvals(cu) ==
    /\ cu \in CurrentUsers
    /\ response' = [op |-> "get_approvals", user |-> cu, code |-> 200, id |-> 0,
                    status |-> "",
                    approvals |-> {i \in DOMAIN approvals :
                                     approvals[i].approver_id = cu}]
    /\ UNCHANGED <<companies, users, expenses, approvals, rules, inflight>>

\* The values the model feeds to the handlers.
Roles == {EMPLOYEE}
ManagerIds == {None} \cup (1 .. MaxUsers)
Actions == {"approved", "rejected", "approve"}
ApprovalIds == 1 .. (Len(approvals) + 1)

Next ==
    \/ Len(users) < MaxUsers /\ signup
    \/ \E cu \in CurrentUsers, role \in Roles, m \in ManagerIds :
          Len(users) < MaxUsers /\ create_user(cu, role, m)
    \/ \E cu \in CurrentUsers :
          Len(expenses) < MaxExpenses /\ submit_expense(cu)
    \/ \E cu \in CurrentUsers, id \in ApprovalIds, a \in Actions :
          act_on_approval(cu, id, a)
    \/ \E cu \in CurrentUsers : get_approvals(cu)

Spec == Init /\ [][Next]_vars

(***************************************************************************)
(* The same handlers over rule tables with a step of several approvers:    *)
(* a percentage step of three approvers (60 %) and a hybrid step of four   *)
(* approvers (50 %, user 1 the designated approver), each followed by a    *)
(* second step.                                                            *)
(***************************************************************************)
MaxPoolUsers == 4
MaxPoolExpenses == 1

PoolConfigs ==
    { << ApprovalRule(1, 1, 1, 60, FALSE), ApprovalRule(1, 1, 2, 60, FALSE),
         ApprovalRule(1, 1, 3, 60, FALSE), ApprovalRule(1, 2, 1, None, FALSE) >>,
      << ApprovalRule(1, 1, 1, 50, TRUE), ApprovalRule(1, 1, 2, 50, FALSE),
         ApprovalRule(1, 1, 3, 50, FALSE), ApprovalRule(1, 1, 4, 50, FALSE),
         ApprovalRule(1, 2, 1, None, FALSE) >> }

InitPool ==
    /\ companies = 0
    /\ users = <<>>
    /\ expenses = <<>>
    /\ approvals = <<>>
    /\ rules \in PoolConfigs
    /\ response = Reply("startup", 0, 200, 0, "")
    /\ inflight = {}

NextPool ==
    \/ Len(users) < MaxPoolUsers /\ signup
    \/ \E cu \in CurrentUsers, role \in Roles :
          Len(users) < MaxPoolUsers /\ create_user(cu, role, None)
    \/ \E cu \in CurrentUsers :
          Len(expenses) < MaxPoolExpenses /\ submit_expense(cu)
    \/ \E cu \in CurrentUsers, id \in ApprovalIds, a \in Actions :
          act_on_approval(cu, id, a)

SpecPool == InitPool /\ [][NextPool]_vars

(***************************************************************************)
(* Concurrent requests.  submit_expense commits twice (the expense, then   *)
(* the requests) and act_on_approval reads the request before it writes    *)
(* it; other requests may be served between the two halves.  The rule      *)
(* table has a percentage step of two approvers that needs both approvals  *)
(* (100 %), followed by a second step.                                     *)
(***************************************************************************)
MaxConcUsers == 2
MaxConcExpenses == 1
MaxCalls == 2

ConcConfigs ==
    { << ApprovalRule(1, 1, 1, 100, FALSE), ApprovalRule(1, 1, 2, 100, FALSE),
         ApprovalRule(1, 2, 1, None, FALSE) >> }

\* A call in flight: the handler, the caller, the id it works on, and for
\* act_on_approval the action and the row session.get returned (<<>>: None).
Call(op, u, id, action, approval) ==
    [op |-> op, user |-> u, id |-> id, action |-> action, approval |-> approval]

\* submit_expense up to the first commit: the expense is stored.
submit_expense_begin(cu) ==
    /\ cu \in CurrentUsers
    /\ expenses' = Append(expenses, Expense(cu))
    /\ inflight' = inflight \cup
                      {Call("submit_expense", cu, Len(expenses) + 1, "", <<>>)}
    /\ UNCHANGED <<companies, users, approvals, rules, response>>

\* submit_expense from the selection of the rules to the second commit.
submit_expense_end(call) ==
    /\ call \in inflight
    /\ call.op = "submit_expense"
    /\ LET rs == RulesOf(users[call.user].company_id)
       IN  IF rs = <<>> /\ Truthy(users[call.user].manager_id)
           THEN approvals' = Append(approvals,
                                    ApprovalRequest(1, call.id,
                                                    users[call.user].manager_id))
           ELSE approvals' = approvals \o RequestsFor(rs, call.id)
    /\ response' = Reply("submit_expense", call.user, 200, call.id, "submitted")
    /\ inflight' = inflight \ {call}
    /\ UNCHANGED <<companies, users, expenses, rules>>

\* act_on_approval: session.get reads the request.
act_on_approval_begin(cu, approval_id, action) ==
    /\ cu \in CurrentUsers
    /\ inflight' = inflight \cup
                      {Call("act_on_approval", cu, approval_id, action,
                            IF approval_id \in DOMAIN approvals
                            THEN << approvals[approval_id] >> ELSE <<>>)}
    /\ UNCHANGED <<companies, users, expenses, approvals, rules, response>>

\* act_on_approval from its checks to the commit.  The commit updates the
\* status column of the row, and only when the assignment changed the value
\* that was read.
act_on_approval_end(call) ==
    /\ call \in inflight
    /\ call.op = "act_on_approval"
    /\ IF call.approval = <<>> \/ call.approval[1].approver_id # call.user
       THEN /\ response' = Reply("act_on_approval", 0, 404, 0, "")
            /\ UNCHANGED approvals
       ELSE IF call.action \notin {"approved", "rejected"}
       THEN /\ response' = Reply("act_on_approval", 0, 400, 0, "")
            /\ UNCHANGED approvals
       ELSE /\ approvals' =
                 IF call.approval[1].status = call.action THEN approvals
                 ELSE [approvals EXCEPT ![call.id].status = call.action]
            /\ response' = Reply("act_on_approval", call.user, 200, call.id,
                                 call.action)
    /\ inflight' = inflight \ {call}
    /\ UNCHANGED <<companies, users, expenses, rules>>

\* GET /company/expenses: the reply lists the expenses selected, by id.
list_company_expenses(cu) ==
    /\ cu \in CurrentUsers
    /\ IF users[cu].role # ADMIN
       THEN response' = Reply("list_company_expenses", 0, 403, 0, "")
       ELSE response' =
                [op |-> "list_company_expenses", user |-> cu, code |-> 200,
                 id |-> 0, status |-> "",
                 expenses |-> {e \in DOMAIN expenses :
                                  users[expenses[e].user_id].company_id
                                      = users[cu].company_id}]
    /\ UNCHANGED <<companies, users, expenses, approvals, rules, inflight>>

InitConc ==
    /\ companies = 0
    /\ users = <<>>
    /\ expenses = <<>>
    /\ approvals = <<>>
    /\ rules \in ConcConfigs
    /\ response = Reply("startup", 0, 200, 0, "")
    /\ inflight = {}

NextConc ==
    \/ Len(users) < MaxConcUsers /\ signup
    \/ \E cu \in CurrentUsers, role \in Roles :
          Len(users) < MaxConcUsers /\ create_user(cu, role, None)
    \/ \E cu \in CurrentUsers :
          /\ Len(expenses) < MaxConcExpenses
          /\ Cardinality(inflight) < MaxCalls
          /\ submit_expense_begin(cu)
    \/ \E call \in inflight : submit_expense_end(call)
    \/ \E cu \in CurrentUsers, id \in ApprovalIds, a \in Actions :
          Cardinality(inflight) < MaxCalls /\ act_on_approval_begin(cu, id, a)
    \/ \E call \in inflight : act_on_approval_end(call)
    \/ \E cu \in CurrentUsers : get_approvals(cu)
    \/ \E cu \in CurrentUsers : list_company_expenses(cu)

SpecConc == InitConc /\ [][NextConc]_vars

(***************************************************************************)
(* Vocabulary of the properties.                                           *)
(***************************************************************************)
\* The ApprovalRequest rows of an expense.
RequestsOf(e) == {i \in DOMAIN approvals : approvals[i].expense_id = e}

\* The company of the submitter of an expense.
CompanyOf(e) == users[expenses[e].user_id].company_id

\* The steps the rules of a company configure, and the rules of one step.
StepsOf(c) == {rules[i].step : i \in {j \in DOMAIN rules : rules[j].company_id = c}}
StepRows(c, k) ==
    {i \in DOMAIN rules : rules[i].company_id = c /\ rules[i].step = k}

\* The kind of a step: hybrid when a rule of the step is flagged hybrid (its
\* approver_id is the designated approver), percentage when a rule of the step
\* sets percentage_required and none is hybrid, fixed otherwise.
IsHybrid(c, k) == \E i \in StepRows(c, k) : rules[i].hybrid
Percentages(c, k) ==
    {rules[i].percentage_required : i \in StepRows(c, k)} \ {None}
IsPercentage(c, k) == Percentages(c, k) # {} /\ ~IsHybrid(c, k)
IsFixed(c, k) ==
    /\ StepRows(c, k) # {}
    /\ Percentages(c, k) = {}
    /\ ~IsHybrid(c, k)
    /\ \A i \in StepRows(c, k) : Truthy(rules[i].approver_id)
IsSingleFixed(c, k) == IsFixed(c, k) /\ Cardinality(StepRows(c, k)) = 1
Threshold(c, k) == CHOOSE p \in Percentages(c, k) : TRUE
Designated(c, k) ==
    {rules[i].approver_id : i \in {j \in StepRows(c, k) : rules[j].hybrid}}

\* The requests of an expense at a step, by status.
At(e, k) == {i \in RequestsOf(e) : approvals[i].step = k}
ApprovedAt(e, k) == {i \in At(e, k) : approvals[i].status = "approved"}
RejectedAt(e, k) == {i \in At(e, k) : approvals[i].status = "rejected"}

\* approved count / total requests at step >= percentage_required
PctMet(e, k) ==
    /\ At(e, k) # {}
    /\ Cardinality(ApprovedAt(e, k)) * 100
         >= Threshold(CompanyOf(e), k) * Cardinality(At(e, k))

\* the rejections leave fewer requests than the threshold needs
PctUnreachable(e, k) ==
    /\ At(e, k) # {}
    /\ (Cardinality(At(e, k)) - Cardinality(RejectedAt(e, k))) * 100
         < Threshold(CompanyOf(e), k) * Cardinality(At(e, k))

DesignatedApproved(e, k) ==
    \E i \in ApprovedAt(e, k) :
        approvals[i].approver_id \in Designated(CompanyOf(e), k)

\* The completion of a step by the condition of its rule.
StepComplete(e, k) ==
    LET c == CompanyOf(e)
    IN  IF IsHybrid(c, k) THEN DesignatedApproved(e, k) \/ PctMet(e, k)
        ELSE IF IsPercentage(c, k) THEN PctMet(e, k)
        ELSE At(e, k) # {} /\ ApprovedAt(e, k) = At(e, k)

\* The rejection of an expense at a step.
StepRejected(e, k) ==
    LET c == CompanyOf(e)
    IN  IF IsHybrid(c, k)
        THEN PctUnreachable(e, k) /\ ~DesignatedApproved(e, k)
        ELSE IF IsPercentage(c, k) THEN PctUnreachable(e, k)
        ELSE RejectedAt(e, k) # {}

\* The steps of the workflow of an expense: those of the rules of the
\* company, or step 1 of the manager fallback.
WorkflowSteps(e) ==
    IF RulesOf(CompanyOf(e)) # <<>> THEN StepsOf(CompanyOf(e))
    ELSE IF Truthy(users[expenses[e].user_id].manager_id) THEN {1}
    ELSE {}

\* The workflow state of an expense, derived from its ApprovalRequests.
WorkflowState(e) ==
    IF RulesOf(CompanyOf(e)) = <<>> /\ WorkflowSteps(e) = {}
    THEN "auto_approved"
    ELSE IF \E k \in WorkflowSteps(e) : StepRejected(e, k) THEN "rejected"
    ELSE IF \A k \in WorkflowSteps(e) : StepComplete(e, k) THEN "approved"
    ELSE "in_progress"

Terminal == {"approved", "rejected", "auto_approved"}

\* The last handler was a submit_expense by a submitter of a company with
\* zero rules.
SubmittedWithoutRules ==
    /\ response.op = "submit_expense"
    /\ RulesOf(users[response.user].company_id) = <<>>

\* C1: a submitter with a manager in a company with zero rules: submit_expense
\* creates exactly one ApprovalRequest for the new expense, at step 1, for the
\* submitter's manager, pending.
C1_ManagerFallback ==
    (SubmittedWithoutRules /\ Truthy(users[response.user].manager_id)) =>
        /\ Cardinality(RequestsOf(response.id)) = 1
        /\ \A i \in RequestsOf(response.id) :
              /\ approvals[i].step = 1
              /\ approvals[i].approver_id = users[response.user].manager_id
              /\ approvals[i].status = "pending"

C1_Witness ==
    /\ SubmittedWithoutRules
    /\ Truthy(users[response.user].manager_id)
    /\ users[response.user].manager_id # response.user
    /\ RequestsOf(response.id) # {}

\* C2: a submitter without a manager in a company with zero rules:
\* submit_expense leaves the new expense without ApprovalRequests and records
\* it as auto_approved.
C2_AutoApprovedRecorded ==
    (SubmittedWithoutRules /\ ~Truthy(users[response.user].manager_id)) =>
        /\ RequestsOf(response.id) = {}
        /\ response.status = "auto_approved"

\* C3: an ApprovalRequest changes only in a successful act_on_approval of the
\* user who is its approver_id, and then in its status only; a call of any
\* other user changes no request.
C3_OnlyApproverActs ==
    [][\A i \in DOMAIN approvals :
          approvals'[i] # approvals[i] =>
              /\ response'.op = "act_on_approval"
              /\ response'.code = 200
              /\ response'.id = i
              /\ response'.user = approvals[i].approver_id
              /\ approvals'[i] = [approvals[i] EXCEPT !.status = response'.status]]_vars

C3_Witness ==
    /\ response.op = "act_on_approval"
    /\ response.code = 200
    /\ approvals[response.id].status = response.status
    /\ approvals[response.id].approver_id = response.user
    /\ Len(users) > 1

\* C4: act_on_approval on a request that is already approved or rejected
\* fails with Conflict (409) and changes no ApprovalRequest, whatever the
\* action sent.
C4_ResolvedConflict ==
    [][\A cu \in CurrentUsers, id \in DOMAIN approvals, a \in Actions :
          (/\ approvals[id].approver_id = cu
           /\ approvals[id].status # "pending"
           /\ act_on_approval(cu, id, a)) =>
              /\ response'.code = 409
              /\ approvals' = approvals]_vars
\* C5: once the workflow state of an expense is terminal (approved, rejected,
\* auto_approved), no later operation moves it to another state.
C5_TerminalStable ==
    [][\A e \in DOMAIN expenses :
          WorkflowState(e) \in Terminal => WorkflowState(e)' = WorkflowState(e)]_vars

C7_LazySteps ==
    \A i \in DOMAIN approvals :
        LET e == approvals[i].expense_id
        IN  \A k \in StepsOf(CompanyOf(e)) :
                k < approvals[i].step => StepComplete(e, k)

\* C8: no ApprovalRequest at a step k > 1 leaves status pending while a lower
\* step of its expense is not completed.
C8_SequentialSteps ==
    [][\A i \in DOMAIN approvals :
          (/\ approvals[i].step > 1
           /\ approvals[i].status = "pending"
           /\ approvals'[i].status # "pending") =>
              \A k \in WorkflowSteps(approvals[i].expense_id) :
                  k < approvals[i].step =>
                      StepComplete(approvals[i].expense_id, k)]_vars

\* The next step of an expense has its requests.
NextStepActive(e, k) == At(e, k + 1) # {}

\* No request of the expense is pending: the workflow has ended.
Closed(e) == \A i \in RequestsOf(e) : approvals[i].status # "pending"

\* C9: a percentage step with N requests completes (its next step is
\* activated) exactly when approved / N >= percentage_required, and once the
\* rejections make the threshold unreachable the expense is rejected (its
\* workflow has ended).
C9_PercentageStep ==
    \A e \in DOMAIN expenses :
        \A k \in StepsOf(CompanyOf(e)) :
            (IsPercentage(CompanyOf(e), k) /\ At(e, k) # {}
             /\ k + 1 \in StepsOf(CompanyOf(e))) =>
                /\ NextStepActive(e, k) <=> PctMet(e, k)
                /\ PctUnreachable(e, k) => Closed(e)

\* C10: a hybrid step completes (its next step is activated) exactly when
\* the designated approver has approved or the percentage threshold is met.
C10_HybridStep ==
    \A e \in DOMAIN expenses :
        \A k \in StepsOf(CompanyOf(e)) :
            (IsHybrid(CompanyOf(e), k) /\ At(e, k) # {}
             /\ k + 1 \in StepsOf(CompanyOf(e))) =>
                (NextStepActive(e, k) <=>
                    (DesignatedApproved(e, k) \/ PctMet(e, k)))
C14_NoSilentSkip ==
    response.op = "submit_expense" =>
        \A i \in DOMAIN rules :
            (/\ rules[i].company_id = users[response.user].company_id
             /\ rules[i].percentage_required # None
             /\ ~Truthy(rules[i].approver_id)) =>
                \/ At(response.id, rules[i].step) # {}
                \/ response.code # 200

\* C16: every submitted expense has at least one ApprovalRequest, unless the
\* company of its submitter has zero rules and the submitter has no manager.
C16_AtLeastOneRequest ==
    \A e \in DOMAIN expenses :
        RequestsOf(e) = {} =>
            /\ RulesOf(CompanyOf(e)) = <<>>
            /\ ~Truthy(users[expenses[e].user_id].manager_id)

\* C17: at most one ApprovalRequest per (expense_id, approver_id, step).
C17_OneRequestPerTriple ==
    \A i, j \in DOMAIN approvals :
        (/\ approvals[i].expense_id = approvals[j].expense_id
         /\ approvals[i].approver_id = approvals[j].approver_id
         /\ approvals[i].step = approvals[j].step) => i = j

\* The user reached from u by following manager_id n times (0: none).
RECURSIVE ManagerChain(_, _)
ManagerChain(u, n) ==
    IF n = 0 THEN u
    ELSE LET m == ManagerChain(u, n - 1)
         IN  IF m \in DOMAIN users /\ Truthy(users[m].manager_id)
             THEN users[m].manager_id
             ELSE 0

\* C18: the manager_id relation over the users has no cycle; no user is
\* their own manager.
C18_NoManagerCycle ==
    \A u \in DOMAIN users, n \in 1 .. Len(users) : ManagerChain(u, n) # u

\* C19: a successful act_on_approval changes the status of the targeted
\* ApprovalRequest and nothing else: its other fields, every other request,
\* the number of requests, the expenses, the rules and the users stay.
C19_ActFrame ==
    [][(response'.op = "act_on_approval" /\ response'.code = 200) =>
          /\ DOMAIN approvals' = DOMAIN approvals
          /\ \A i \in DOMAIN approvals :
                approvals'[i] =
                    IF i = response'.id
                    THEN [approvals[i] EXCEPT !.status = response'.status]
                    ELSE approvals[i]
          /\ expenses' = expenses
          /\ rules' = rules
          /\ users' = users
          /\ companies' = companies]_vars

C19_Witness ==
    /\ response.op = "act_on_approval"
    /\ response.code = 200
    /\ approvals[response.id].status = "rejected"
    /\ \E i \in RequestsOf(approvals[response.id].expense_id) :
          i # response.id /\ approvals[i].status = "pending"

\* C20: every ApprovalRequest has status pending, approved or rejected, and
\* an act_on_approval that fails leaves the status of every request as it was.
C20_StatusDomain ==
    [][/\ \A i \in DOMAIN approvals' :
             approvals'[i].status \in {"pending", "approved", "rejected"}
       /\ (response'.op = "act_on_approval" /\ response'.code # 200) =>
             /\ DOMAIN approvals' = DOMAIN approvals
             /\ \A i \in DOMAIN approvals :
                   approvals'[i].status = approvals[i].status]_vars

C20_Witness ==
    /\ response.op = "act_on_approval"
    /\ response.code = 400
    /\ \E i \in DOMAIN approvals : approvals[i].status # "pending"
\* C15 as stated: get_approvals returns exactly the ApprovalRequests whose
\* approver_id is the caller and whose status is pending.
C15_PendingListing ==
    response.op = "get_approvals" =>
        response.approvals =
            {i \in DOMAIN approvals :
                /\ approvals[i].approver_id = response.user
                /\ approvals[i].status = "pending"}

\* C15 as the code has it: get_approvals returns exactly the ApprovalRequests
\* whose approver_id is the caller, whatever their status.
C15_ApproverListing ==
    response.op = "get_approvals" =>
        response.approvals =
            {i \in DOMAIN approvals : approvals[i].approver_id = response.user}

C15_Witness ==
    /\ response.op = "get_approvals"
    /\ \E i \in response.approvals : approvals[i].status # "pending"
    /\ \E i \in DOMAIN approvals : i \notin response.approvals
\* The number of requests with an approver that the rules of a company hold
\* at a step.
RequestsConfigured(c, k) ==
    Cardinality({i \in StepRows(c, k) : Truthy(rules[i].approver_id)})

\* C11: when approvals of a percentage step reach the threshold, one step
\* completion happens: the requests of the next step are created by it, once
\* (none before, one per approver after), under every interleaving of the
\* calls.
C11_SingleCompletion ==
    [][\A e \in DOMAIN expenses :
          \A k \in StepsOf(CompanyOf(e)) :
              (/\ IsPercentage(CompanyOf(e), k)
               /\ k + 1 \in StepsOf(CompanyOf(e))
               /\ ~PctMet(e, k)
               /\ PctMet(e, k)') =>
                  /\ At(e, k + 1) = {}
                  /\ Cardinality(At(e, k + 1)')
                       = RequestsConfigured(CompanyOf(e), k + 1)]_vars

\* The requests submit_expense creates for an expense.
InitialRequests(e) ==
    LET u == expenses[e].user_id
        rs == RulesOf(users[u].company_id)
    IN  IF rs = <<>> /\ Truthy(users[u].manager_id)
        THEN << ApprovalRequest(1, e, users[u].manager_id) >>
        ELSE RequestsFor(rs, e)

\* C12: an expense that a concurrent list_company_expenses sees in the store
\* has all the requests submit_expense creates for it.
C12_AtomicSubmission ==
    (response.op = "list_company_expenses" /\ response.code = 200) =>
        \A e \in response.expenses :
            Cardinality(RequestsOf(e)) = Len(InitialRequests(e))

====
